---- MODULE Spec2Model ----
(***************************************************************************)
(* A model of paperdownload.py (class SciHubDownloader): the batch driver  *)
(* run(), the per-identifier routine download() with its mirror loop, the  *)
(* retrying HTTP session, the output directory, errlog.txt and the pure    *)
(* function sanitize_filename.                                             *)
(*                                                                         *)
(* Strings whose characters matter (identifiers, file names) are tuples of *)
(* one-character strings.  The network, the HTML parser and the file       *)
(* system are the environment: every outcome they can produce at a step is *)
(* a nondeterministic choice of that step.                                 *)
(***************************************************************************)
EXTENDS Naturals, Sequences, FiniteSets, TLC

\* ---------------------------------------------------------------- bounds
\* Longest identifier list run() is given.
MaxDois == 2
\* Longest input string given to sanitize_filename in SanSpec.
MaxLen == 3

\* ------------------------------------------------------ program constants
\* create_session_with_retry(retries=3, ...): Retry(total=retries, ...).
retries == 3
\* status_forcelist=(500, 502, 504)
status_forcelist == {500, 502, 504}
\* sci_hub_urls default
scihub_urls == <<"https://sci-hub.se/", "https://sci-hub.st/">>

\* ------------------------------------------------------------- strings
\* The characters input strings are drawn from: a letter, the slash, the
\* backslash, the colon, the underscore and the dot.
Alphabet == {"a", "/", "\\", ":", "_", "."}

\* The nine characters the specification lists as forbidden in a file name.
NineChars == {"/", "\\", ":", "*", "?", "\"", "<", ">", "|"}

\* The character class of the pattern r'[\/:*?"<>|]': inside the class the
\* pair \/ is an escaped slash, so the class holds the slash and no backslash.
PatternClass == {"/", ":", "*", "?", "\"", "<", ">", "|"}

PdfSuffix == <<".", "p", "d", "f">>

\* re.sub(r'[\/:*?"<>|]', '_', doi) + ".pdf"
sanitize_filename(doi) ==
    [k \in 1..Len(doi) |-> IF doi[k] \in PatternClass THEN "_" ELSE doi[k]]
        \o PdfSuffix

\* All strings over Alphabet of length at most n.
RECURSIVE StringsUpTo(_)
StringsUpTo(n) ==
    IF n = 0 THEN {<< >>}
    ELSE LET shorter == StringsUpTo(n - 1)
         IN  shorter \cup {Append(s, c) : s \in shorter, c \in Alphabet}

\* ------------------------------------------------------------ identifiers
\* The identifiers the input file may hold: two that differ only in a
\* character of the pattern class, and one that holds a backslash.
DoiPool == << <<"a", "/", "b">>, <<"a", ":", "b">>, <<"a", "\\", "b">> >>

\* load_doi_list: the stripped lines of the input file, in file order, none
\* filtered.  The lists considered are the prefixes of the repeated pool.
DoiLists ==
    {[k \in 1..n |-> DoiPool[((k - 1) % Len(DoiPool)) + 1]] : n \in 0..MaxDois}

\* ------------------------------------------------------------ environment
\* Status codes a server may answer with.
StatusCodes == {200, 404, 500, 502, 504}
\* Failures of one HTTP attempt below the status level.
TransportErrors == {"connect_error", "read_error"}
\* What etree.HTML and root.xpath make of a 200 page:
\*   "empty"    etree.HTML returns None
\*   "no_embed" a document in which the query matches nothing
\*   "embed"    a document in which the query matches a link
\*   "raises"   the parser or the query raises
Contents == {"empty", "no_embed", "embed", "raises"}
\* The content-length header of the file response.
Headers == {"length", "absent", "malformed"}

VARIABLES
    doilist,    \* self.doilist
    index,      \* run(): number of identifiers finished = index of the current one
    pc,         \* position of the program
    mirror,     \* download(): position of scihub_url in self.scihub_urls
    attempts,   \* HTTP attempts made for the current session.get
    status,     \* status_code of the response last returned by session.get
    open,       \* resources open: <<name, index, mirror>>
    files,      \* output directory: file name -> "partial" | "complete"
    errlog,     \* errlog.txt: its lines, <<identifier, mirror url>>
    stdout,     \* printed messages: [k |-> kind, i |-> index]
    trace,      \* mirror attempts ended in the current call of download():
                \* [i, m, r |-> outcome, f |-> file opened]
    nreq,       \* mirror attempts begun since run() started
    calls,      \* indexes download() was invoked with, in order
    arg,        \* SanSpec: the string sanitize_filename is applied to
    ret,        \* SanSpec: results of the successive applications
    sanpc       \* SanSpec: position

vars == <<doilist, index, pc, mirror, attempts, status, open, files, errlog,
          stdout, trace, nreq, calls, arg, ret, sanpc>>

sanvars == <<arg, ret, sanpc>>

doi == doilist[index + 1]
scihub_url == scihub_urls[mirror]
NoFile == << >>

Init ==
    /\ doilist \in DoiLists
    /\ index = 0
    /\ pc = "run"
    /\ mirror = 1
    /\ attempts = 0
    /\ status = 0
    /\ open = {}
    /\ files = << >>
    /\ errlog = << >>
    /\ stdout = << >>
    /\ trace = << >>
    /\ nreq = 0
    /\ calls = << >>
    /\ arg = << >>
    /\ ret = << >>
    /\ sanpc = "off"

\* ------------------------------------------------------- retrying session
\* A budget that allows one retry more.
CanRetryOnceMore(failures) == failures <= retries + 1

\* urllib3's Retry(total=retries): every failed attempt uses up one of the
\* `retries` retries, and the request is given up when a failure finds none
\* left.  failures is the number of failed attempts so far, this one included.
CanRetry(failures) == failures <= retries

\* ----------------------------------------------------- download(): decisions
\* A failed page fetch that ends the identifier.
PageStatusStepReturns(code) == IF code # 200 THEN "return" ELSE "parse"

\* Lines 86-88: what follows the page's status code.
PageStatusStep(code) == IF code # 200 THEN "continue" ELSE "parse"

\* A page without a matching link treated as an error of the try block.
ParseStepRaisesOnNoLink(content) ==
    CASE content = "empty"    -> "return"
      [] content = "no_embed" -> "except"
      [] content = "embed"    -> "file_get"
      [] content = "raises"   -> "except"

\* Lines 91-103: what follows the parse of a 200 page and the query.
ParseStep(content) ==
    CASE content = "empty"    -> "return"
      [] content = "no_embed" -> "return"
      [] content = "embed"    -> "file_get"
      [] content = "raises"   -> "except"

\* A failed file fetch that goes on to the next mirror.
FileStatusStepContinues(code) == IF code # 200 THEN "continue" ELSE "save"

\* Lines 107-109: what follows the file response's status code.
FileStatusStep(code) == IF code # 200 THEN "return" ELSE "save"

\* get_file_size, lines 69-75: KeyError is caught, any other error of
\* int(req_file.headers['content-length']) is not.
get_file_size(header) == IF header = "malformed" THEN "except" ELSE "save"

\* A completed download that goes on to the next mirror.
DownloadedStepContinues == "continue"

\* Lines 125-126: what follows a completed download.
DownloadedStep == "return"

\* ----------------------------------------------------- download(): effects
Msg(kind) == [k |-> kind, i |-> index]

Ended(outcome, file) ==
    trace' = Append(trace, [i |-> index, m |-> mirror, r |-> outcome, f |-> file])

\* A return from download() that ends the batch.
ReturnEndsBatch(msgs) ==
    /\ stdout' = stdout \o msgs
    /\ index' = index + 1
    /\ pc' = "done"
    /\ attempts' = 0
    /\ UNCHANGED <<mirror, nreq>>

\* `return` from download(), and run()'s loop moving to the next identifier.
Return(msgs) ==
    /\ stdout' = stdout \o msgs
    /\ index' = index + 1
    /\ pc' = "run"
    /\ attempts' = 0
    /\ UNCHANGED <<mirror, nreq>>

\* The for loop of line 81 taking its next mirror; line 132 when none is left.
Continue(msgs) ==
    IF mirror < Len(scihub_urls)
    THEN /\ stdout' = stdout \o msgs
         /\ mirror' = mirror + 1
         /\ nreq' = nreq + 1
         /\ attempts' = 0
         /\ pc' = "page_get"
         /\ index' = index
    ELSE Return(Append(msgs, Msg("failed_all")))

\* A handler that prints the exception and writes nothing to errlog.txt.
ExceptUnlogged ==
    /\ errlog' = errlog
    /\ Continue(<<Msg("exception")>>)

\* Lines 128-131: the handler of the try block.
Except ==
    /\ errlog' = Append(errlog, <<doi, scihub_url>>)
    /\ Continue(<<Msg("exception")>>)

\* One of the three ways a step of the try block ends the mirror attempt.
Leave(step, msg) ==
    CASE step = "continue" -> Continue(<<Msg(msg)>>) /\ UNCHANGED errlog
      [] step = "return"   -> Return(<<Msg(msg)>>) /\ UNCHANGED errlog
      [] step = "except"   -> Except

\* with closing(req_file): the response opened for this mirror attempt is closed.
CloseResponse(handles) == handles \ {<<"req_file", index, mirror>>}
\* with open(file_path, "wb") as file: the file handle is closed.
CloseFile(handles) == handles \ {<<"file", index, mirror>>}

file_name == sanitize_filename(doi)

\* ------------------------------------------------------------------ run()
\* Lines 138-140 and 81: the next identifier is announced and download()
\* is entered with the first mirror.
RunStep ==
    /\ pc = "run"
    /\ index < Len(doilist)
    /\ calls' = Append(calls, index)
    /\ stdout' = Append(stdout, Msg("start"))
    /\ mirror' = 1
    /\ attempts' = 0
    /\ nreq' = nreq + 1
    /\ trace' = << >>
    /\ pc' = "page_get"
    /\ UNCHANGED <<doilist, index, status, open, files, errlog, sanvars>>

\* Line 138: the list is used up and run() returns.
RunDone ==
    /\ pc = "run"
    /\ index = Len(doilist)
    /\ pc' = "done"
    /\ UNCHANGED <<doilist, index, mirror, attempts, status, open, files,
                   errlog, stdout, trace, nreq, calls, sanvars>>

\* -------------------------------------------------------------- session.get
\* One HTTP attempt of a session.get.  A retryable failure is retried while
\* the budget lasts and raised to the handler of download() afterwards; any
\* other response is returned to the caller.  A response returned with
\* stream=True stays open until it is closed.
GetFailed(raised) ==
    IF CanRetry(attempts + 1)
    THEN /\ attempts' = attempts + 1
         /\ UNCHANGED <<index, pc, mirror, status, open, errlog, stdout, trace, nreq>>
    ELSE /\ Ended(raised, NoFile)
         /\ Except
         /\ UNCHANGED <<status, open>>

GetAttempt(there, streamed, raised) ==
    /\ \/ \E e \in TransportErrors : GetFailed(raised)
       \/ \E code \in StatusCodes :
            IF code \in status_forcelist
            THEN GetFailed(raised)
            ELSE /\ attempts' = attempts + 1
                 /\ status' = code
                 /\ pc' = there
                 /\ open' = IF streamed
                            THEN open \cup {<<"req_file", index, mirror>>}
                            ELSE open
                 /\ UNCHANGED <<index, mirror, errlog, stdout, trace, nreq>>
    /\ UNCHANGED <<doilist, files, calls, sanvars>>

\* Line 84: req = self.session.get(url=scihub_url + doi, ...)
PageGet ==
    /\ pc = "page_get"
    /\ GetAttempt("page_check", FALSE, "page_exc")

\* Line 106: req_file = self.session.get(url=..., stream=True, ...)
FileGet ==
    /\ pc = "file_get"
    /\ GetAttempt("file_check", TRUE, "file_exc")

\* ---------------------------------------------------------------- download()
\* Lines 86-103: the status check, the parse, the query and ensure_scheme.
PageCheck ==
    /\ pc = "page_check"
    /\ IF PageStatusStep(status) # "parse"
       THEN /\ Ended("page_non200", NoFile)
            /\ Leave(PageStatusStep(status), "page_status")
       ELSE \E content \in Contents :
              IF ParseStep(content) = "file_get"
              THEN /\ pc' = "file_get"
                   /\ attempts' = 0
                   /\ UNCHANGED <<index, mirror, errlog, stdout, trace, nreq>>
              ELSE /\ Ended(content, NoFile)
                   /\ Leave(ParseStep(content), content)
    /\ UNCHANGED <<doilist, status, open, files, calls, sanvars>>

\* Lines 107-113: the status check of the file response, get_file_size and
\* the file name.  Neither the return of line 109 nor an error of
\* get_file_size closes req_file: closing() is entered at line 116 only.
FileCheck ==
    /\ pc = "file_check"
    /\ IF FileStatusStep(status) # "save"
       THEN /\ Ended("file_non200", NoFile)
            /\ Leave(FileStatusStep(status), "file_status")
       ELSE \E header \in Headers :
              IF get_file_size(header) = "except"
              THEN /\ Ended("size_exc", NoFile)
                   /\ Except
              ELSE /\ pc' = "save"
                   /\ attempts' = 0
                   /\ UNCHANGED <<index, mirror, errlog, stdout, trace, nreq>>
    /\ UNCHANGED <<doilist, status, open, files, calls, sanvars>>

\* Lines 116-119: closing(req_file) is entered and the output file is opened
\* for writing, which creates it or empties the file of that name.
OpenFile ==
    /\ pc = "save"
    /\ \/ /\ open' = CloseResponse(open)
          /\ Ended("open_exc", NoFile)
          /\ Except
          /\ UNCHANGED files
       \/ /\ open' = open \cup {<<"file", index, mirror>>}
          /\ files' = [n \in DOMAIN files \cup {file_name} |->
                         IF n = file_name THEN [st |-> "partial", by |-> index]
                                          ELSE files[n]]
          /\ pc' = "stream"
          /\ UNCHANGED <<index, mirror, attempts, errlog, stdout, trace, nreq>>
    /\ UNCHANGED <<doilist, status, calls, sanvars>>

\* Lines 120-126: the chunks are written; both with blocks close what they
\* opened, whether the loop ends or raises.  Nothing removes the file.
Stream ==
    /\ pc = "stream"
    /\ open' = CloseFile(CloseResponse(open))
    /\ \/ /\ Ended("stream_exc", file_name)
          /\ Except
          /\ UNCHANGED files
       \/ /\ files' = [files EXCEPT ![file_name].st = "complete"]
          /\ Ended("ok", file_name)
          /\ Leave(DownloadedStep, "downloaded")
    /\ UNCHANGED <<doilist, status, calls, sanvars>>

Next ==
    \/ RunStep
    \/ RunDone
    \/ PageGet
    \/ FileGet
    \/ PageCheck
    \/ FileCheck
    \/ OpenFile
    \/ Stream

Spec == Init /\ [][Next]_vars

\* ------------------------------------------- sanitize_filename on its own
\* SanSpec applies sanitize_filename to every string over Alphabet of length
\* at most MaxLen, and then to its own result.  The downloader does not run.
SanInit ==
    /\ arg \in StringsUpTo(MaxLen)
    /\ ret = << >>
    /\ sanpc = "call"
    /\ doilist = << >>
    /\ index = 0
    /\ pc = "off"
    /\ mirror = 1
    /\ attempts = 0
    /\ status = 0
    /\ open = {}
    /\ files = << >>
    /\ errlog = << >>
    /\ stdout = << >>
    /\ trace = << >>
    /\ nreq = 0
    /\ calls = << >>

mainvars == <<doilist, index, pc, mirror, attempts, status, open, files,
              errlog, stdout, trace, nreq, calls>>

\* file_name = self.sanitize_filename(doi)
SanCall ==
    /\ sanpc = "call"
    /\ ret' = <<sanitize_filename(arg)>>
    /\ sanpc' = "again"
    /\ UNCHANGED <<arg, mainvars>>

\* sanitize_filename applied to the result of the first application.
SanAgain ==
    /\ sanpc = "again"
    /\ ret' = Append(ret, sanitize_filename(ret[1]))
    /\ sanpc' = "end"
    /\ UNCHANGED <<arg, mainvars>>

SanNext == SanCall \/ SanAgain

SanSpec == SanInit /\ [][SanNext]_vars

\* =============================================================== properties
EndsWithPdf(s) ==
    /\ Len(s) >= Len(PdfSuffix)
    /\ SubSeq(s, Len(s) - Len(PdfSuffix) + 1, Len(s)) = PdfSuffix

\* C1: sanitize_filename is total and idempotent: for every input string the
\* result is the input with every occurrence of the nine characters
\* / \ : * ? " < > | replaced by '_' (so it holds none of them) followed by
\* '.pdf' once, and sanitize_filename applied to its own result returns that
\* result unchanged.
C1_SanitizeNineCharsIdempotent ==
    /\ Len(ret) >= 1 =>
         /\ Len(ret[1]) = Len(arg) + Len(PdfSuffix)
         /\ EndsWithPdf(ret[1])
         /\ \A k \in 1..Len(arg) :
               ret[1][k] = IF arg[k] \in NineChars THEN "_" ELSE arg[k]
         /\ \A k \in 1..Len(ret[1]) : ret[1][k] \notin NineChars
    /\ Len(ret) >= 2 => ret[2] = ret[1]

\* ------------------------------------------------ reading the history
Ids == 0..(Len(doilist) - 1)
NumMirrors == Len(scihub_urls)
\* The index download() was last called with; trace is the history of that call.
Cur == Len(calls) - 1
Called == calls # << >>
\* No call of download() is in progress: run() is between two identifiers
\* or has ended.
Returned == pc \in {"run", "done"}
\* The call of download() that trace belongs to has returned.
CallReturned == Called /\ Returned /\ index = Cur + 1
Outcomes == {trace[k].r : k \in 1..Len(trace)}
Printed(kind, i) == \E k \in 1..Len(stdout) : stdout[k] = [k |-> kind, i |-> i]
\* The mirror attempts that ended in the handler of lines 128-131.
ExcOutcomes == {"page_exc", "raises", "file_exc", "size_exc", "open_exc", "stream_exc"}
\* The mirror attempts in which no response held a link the query matches.
NoLinkOutcomes == {"page_exc", "page_non200", "empty", "no_embed"}
\* The mirror attempts after which download() returns at once.
ReturnOutcomes == {"empty", "no_embed", "file_non200"}
\* The attempt after trace[k] is made with the next mirror for the same
\* identifier: it is the next entry of trace, or it is the one in progress.
NextMirrorFollows(k) ==
    IF k < Len(trace)
    THEN trace[k + 1].i = trace[k].i /\ trace[k + 1].m = trace[k].m + 1
    ELSE /\ index = trace[k].i
         /\ mirror = trace[k].m + 1
         /\ pc \in {"page_get", "page_check", "file_get", "file_check", "save", "stream"}
\* trace[k] is the last attempt of its call, which has returned.
EndsIdentifier(k) == k = Len(trace) /\ CallReturned
\* A mirror attempt ends in this step.
AttemptEnds == Len(trace') = Len(trace) + 1
EndedAs == trace'[Len(trace')].r
IsPrefix(s, t) == Len(s) <= Len(t) /\ SubSeq(t, 1, Len(s)) = s

\* C2: when the first mirror's page fetch returns a non-200 status and the
\* second mirror yields a page with a link and a file that streams to
\* completion, download() writes exactly one file, named
\* sanitize_filename(identifier), and prints no final failure message; in
\* general the mirrors are tried in list order and a completed download ends
\* the processing of the identifier.
C2_FirstCompletedMirrorEnds ==
    /\ \A k \in 1..Len(trace) :
          /\ trace[k].i = Cur
          /\ trace[k].m = k
          /\ trace[k].r = "ok" =>
                /\ EndsIdentifier(k)
                /\ ~Printed("failed_all", Cur)
                /\ trace[k].f = sanitize_filename(doilist[Cur + 1])
    /\ (Len(trace) = 2 /\ trace[1].r = "page_non200" /\ trace[2].r = "ok")
       => /\ Cardinality({k \in 1..Len(trace) : trace[k].f # NoFile}) = 1
          /\ sanitize_filename(doilist[Cur + 1]) \in DOMAIN files
          /\ files[sanitize_filename(doilist[Cur + 1])] = [st |-> "complete", by |-> Cur]
          /\ ~Printed("failed_all", Cur)
          /\ Printed("downloaded", Cur)

C2_Witness ==
    /\ Len(trace) = 2
    /\ trace[1].r = "page_non200"
    /\ trace[2].r = "ok"
    /\ CallReturned
    /\ files[sanitize_filename(doilist[Cur + 1])].st = "complete"

C4_OneLinePerException ==
    /\ [](\A k \in 1..Len(trace) :
            trace[k].r \in ExcOutcomes
            => IF trace[k].m < NumMirrors
               THEN NextMirrorFollows(k)
               ELSE EndsIdentifier(k) /\ Printed("failed_all", Cur))
    /\ [][/\ IsPrefix(errlog, errlog')
          /\ IF AttemptEnds /\ EndedAs \in ExcOutcomes
             THEN /\ errlog' = Append(errlog, <<doi, scihub_url>>)
                  /\ pc' \in {"page_get", "run"}
             ELSE errlog' = errlog]_vars

C4_Witness ==
    /\ Len(errlog) = 2
    /\ Len(trace) = 2
    /\ trace[1].r = "stream_exc"
    /\ trace[2].r = "raises"
    /\ pc = "run"

\* The identifiers whose download completed.
Succeeded == {i \in Ids : Printed("downloaded", i)}

\* C5: after a complete run the output directory holds exactly one file per
\* successfully downloaded identifier, named sanitize_filename(identifier)
\* and complete; no file exists for an identifier whose download did not
\* complete, an interrupted stream included; and two successfully
\* downloaded identifiers never share one output file.
C5_OneCompleteFilePerSuccess ==
    pc = "done" =>
        /\ DOMAIN files = {sanitize_filename(doilist[i + 1]) : i \in Succeeded}
        /\ \A n \in DOMAIN files : files[n].st = "complete"
        /\ \A i, j \in Succeeded :
              i # j => sanitize_filename(doilist[i + 1]) # sanitize_filename(doilist[j + 1])

\* C6 as stated: one logical GET makes at most 3 HTTP attempts in total.
C6_AtMostThreeAttempts == attempts <= 3

\* C6 as amended: one logical GET makes at most retries + 1 = 4 HTTP
\* attempts, the first and up to `retries` retries.  A response the session
\* returns, after retryable failures or none, has a status outside the
\* forcelist and reaches the caller with no line in errlog.txt and nothing
\* printed; a retryable failure is retried only while retries are left; and
\* the failure that finds none left is raised into the handler of
\* download(), which logs it and goes on.
C6_RetryBudget ==
    /\ [](attempts <= retries + 1)
    /\ [][(pc \in {"page_get", "file_get"})
          => /\ (pc' \in {"page_check", "file_check"})
                => /\ status' \notin status_forcelist
                   /\ errlog' = errlog /\ stdout' = stdout /\ trace' = trace
             /\ (pc' = pc /\ attempts' = attempts + 1) => attempts' <= retries
             /\ AttemptEnds
                => /\ EndedAs \in {"page_exc", "file_exc"}
                   /\ attempts = retries
                   /\ errlog' = Append(errlog, <<doi, scihub_url>>)
                   /\ pc' \in {"page_get", "run"}]_vars

C6_Witness ==
    /\ pc = "page_check"
    /\ status = 200
    /\ attempts = retries + 1
    /\ errlog = << >>

\* C7: run() invokes download() exactly once for every identifier of the
\* list, in list order, each invocation finishing its mirror attempts before
\* the next begins; no failure of an identifier stops the batch; and run()
\* ends after at most len(identifiers) x len(mirrors) mirror attempts.
C7_BatchRunsEveryIdentifierOnce ==
    /\ calls = [k \in 1..Len(calls) |-> k - 1]
    /\ Len(calls) = IF Returned THEN index ELSE index + 1
    /\ Len(calls) <= Len(doilist)
    /\ \A k \in 1..Len(trace) : trace[k].i = Cur
    /\ Len(trace) <= NumMirrors
    /\ nreq <= Len(calls) * NumMirrors
    /\ nreq <= Len(doilist) * NumMirrors
    /\ pc = "done" => Len(calls) = Len(doilist) /\ index = Len(doilist)
    /\ pc # "done" => ENABLED Next

C7_Witness ==
    /\ pc = "done"
    /\ Len(calls) >= 2
    /\ Printed("failed_all", 0)
    /\ Printed("exception", 0)
    /\ Printed("downloaded", 1)
    /\ nreq = Len(doilist) * NumMirrors

\* C8: when a mirror's page fetch returns 200 and then the body parses to no
\* document, or the query matches nothing, or the file fetch returns a
\* non-200 status, download() returns at once: no request goes to a later
\* mirror for that identifier, no final failure message is printed, and
\* run() goes on to the next identifier.  A non-200 status of the page fetch
\* itself goes on to the next mirror.
C8_EarlyReturnAsymmetry ==
    \A k \in 1..Len(trace) :
        /\ trace[k].r \in ReturnOutcomes
           => /\ EndsIdentifier(k)
              /\ ~Printed("failed_all", Cur)
              /\ pc = "run" => (index < Len(doilist) => ENABLED RunStep)
        /\ (trace[k].r = "page_non200" /\ trace[k].m < NumMirrors)
           => NextMirrorFollows(k)

C8_Witness ==
    /\ Len(trace) = 1
    /\ trace[1] = [i |-> 0, m |-> 1, r |-> "no_embed", f |-> NoFile]
    /\ index = 1
    /\ pc = "run"
    /\ Len(doilist) >= 2

\* C9 as stated: whenever the final failure message is printed for an
\* identifier, every mirror's page fetch for it returned a non-200 status.
C9_FailedOnlyByNon200 ==
    (Called /\ Printed("failed_all", Cur)) => Outcomes = {"page_non200"}

\* C9 as amended: the final failure message is printed for an identifier
\* exactly when its mirror loop is used up without a return, and then every
\* mirror was tried and each attempt ended in a non-200 status of the page
\* fetch or in an exception caught by the handler.
C9_FailedWhenLoopExhausted ==
    Called =>
        /\ Printed("failed_all", Cur)
           <=> /\ CallReturned
               /\ Outcomes \cap (ReturnOutcomes \cup {"ok"}) = {}
        /\ Printed("failed_all", Cur)
           => /\ {trace[k].m : k \in 1..Len(trace)} = 1..NumMirrors
              /\ Outcomes \subseteq {"page_non200"} \cup ExcOutcomes
              /\ Cardinality({k \in 1..Len(stdout) :
                                stdout[k] = [k |-> "failed_all", i |-> Cur]}) = 1

C9_Witness ==
    /\ Called
    /\ Printed("failed_all", Cur)
    /\ Outcomes = {"page_exc", "size_exc"}

\* C10: whenever download() returns or moves to the next mirror, no output
\* file handle, error-log handle or streaming response opened for the mirror
\* attempt that ended is still open: what is open belongs to the attempt in
\* progress, past its file fetch.
C10_NothingLeftOpen ==
    \A h \in open :
        /\ h[2] = index
        /\ h[3] = mirror
        /\ pc \in {"file_check", "save", "stream"}

====
